---- MODULE Spec2Model ----
(***************************************************************************)
(* Model of downloader.py: the batch driver download(), the per-link       *)
(* pipeline process_file(), the fetcher download_file() and the converter  *)
(* wrappers.  File names and URLs are sequences of tokens ("T1", ".",      *)
(* "zip", "/", "_dem", ...); the string functions of the code (split,      *)
(* replace, pathlib name / stem / suffix / with_suffix) are computed on    *)
(* these sequences.                                                        *)
(***************************************************************************)
EXTENDS Integers, Sequences, FiniteSets, TLC

VARIABLES
    mainpc,             \* position of the __main__ block / download()
    exit_status,        \* process exit status, -1 while running
    data_type,          \* args.data_type.lower()
    convert,            \* --convert-to-geotif
    unzip,              \* --unzip
    ellipsoidal,        \* --ellipsoidal
    skip,               \* --skip-if-exist
    threads_count,      \* --threads-count
    links,              \* the enumerated link set
    prefixes_to_ignore, \* download(): the skip index
    pending,            \* links the for loop of download() has not visited yet
    count,              \* download(): count
    total,              \* download(): total
    queue,              \* the executor's work queue (submitted, not started)
    jobs,               \* per link: the process_file call submitted for it
    disk,               \* the file system: path -> content
    requests,           \* per link: the HTTP requests download_file has issued
    calls,              \* per link: the external tool invocations
    submitted,          \* per link: number of executor.submit calls
    run,                \* number of the current invocation of the program
    first_run           \* what the first invocation was and how it ended

vars == <<mainpc, exit_status, data_type, convert, unzip, ellipsoidal, skip,
          threads_count, links, prefixes_to_ignore, pending, count, total,
          queue, jobs, disk, requests, calls, submitted, run, first_run>>

args == <<data_type, convert, unzip, ellipsoidal, threads_count, links>>

\* ------------------------------------------------------------------ bounds

MaxLinks == 2       \* size of the largest enumerated link set
MaxThreads == 2     \* largest --threads-count
MaxEntries == 3     \* longest archive entry list of the unpack specification
MaxRuns == 2        \* invocations of the program in SpecResume
MaxPrior == 1       \* tiles with files already in geotiff/ellipsoidal at start

\* ----------------------------------------------------- strings as token lists

RECURSIVE IndexOf(_, _, _)
\* str.find: the first index >= i where token t stands, 0 when there is none
IndexOf(s, t, i) ==
    IF i > Len(s) THEN 0
    ELSE IF s[i] = t THEN i
    ELSE IndexOf(s, t, i + 1)

RECURSIVE LastIndexOf(_, _, _)
\* str.rfind: the last index <= i where token t stands, 0 when there is none
LastIndexOf(s, t, i) ==
    IF i < 1 THEN 0
    ELSE IF s[i] = t THEN i
    ELSE LastIndexOf(s, t, i - 1)

\* pathlib: PurePath.name, the part after the last "/"
BaseName(s) ==
    SubSeq(s, LastIndexOf(s, "/", Len(s)) + 1, Len(s))

\* pathlib: PurePath.suffix of a final component, "" when the last "." is the
\* first or the last character of the name
Suffix(name) ==
    LET i == LastIndexOf(name, ".", Len(name))
    IN  IF 1 < i /\ i < Len(name) THEN SubSeq(name, i, Len(name)) ELSE <<>>

\* pathlib: PurePath.stem
Stem(name) ==
    LET i == LastIndexOf(name, ".", Len(name))
    IN  IF 1 < i /\ i < Len(name) THEN SubSeq(name, 1, i - 1) ELSE name

\* pathlib: PurePath.with_suffix
WithSuffix(name, ext) == Stem(name) \o ext

\* str.split(".")[0]
SplitFirst(name) ==
    LET i == IndexOf(name, ".", 1)
    IN  IF i = 0 THEN name ELSE SubSeq(name, 1, i - 1)

RECURSIVE Replace(_, _)
\* str.replace(pat, "")
Replace(s, pat) ==
    IF Len(s) < Len(pat) THEN s
    ELSE IF SubSeq(s, 1, Len(pat)) = pat
         THEN Replace(SubSeq(s, Len(pat) + 1, Len(s)), pat)
         ELSE <<Head(s)>> \o Replace(Tail(s), pat)

\* "tok" in name
Contains(name, tok) == IndexOf(name, tok, 1) # 0

\* ------------------------------------------------------------ the file system

\* A path is <<directory, name>>; the directories download() and process_file
\* use are <target> ("target"), <target>/geotiff ("geotiff") and
\* <target>/geotiff/ellipsoidal ("ellipsoidal").
Path(dir, name) == <<dir, name>>

Archive(entries) == [kind |-> "archive", entries |-> entries]
Junk == [kind |-> "junk", entries |-> <<>>]   \* a truncated or non-archive body
Plain == [kind |-> "file", entries |-> <<>>]  \* an extracted or converted file

Exists(d, p) == p \in DOMAIN d

\* open(p, "wb") + write, or a tool writing its output
WriteFile(d, p, c) == [q \in DOMAIN d \cup {p} |-> IF q = p THEN c ELSE d[q]]

\* an unlink that leaves the file where it is
UnlinkNothing(d, p) == d

\* Path.unlink of an existing file
Unlink(d, p) == [q \in DOMAIN d \ {p} |-> d[q]]

RECURSIVE WriteAll(_, _, _)
\* ZipFile.extractall(dir): every entry of the archive is written under dir
WriteAll(d, dir, entries) ==
    IF entries = <<>> THEN d
    ELSE WriteAll(WriteFile(d, Path(dir, Head(entries)), Plain), dir, Tail(entries))

\* (target_folder / "geotiff" / "ellipsoidal").iterdir(), as file names
EllipsoidalNames(d) == {p[2] : p \in {q \in DOMAIN d : q[1] = "ellipsoidal"}}

\* --------------------------------------------------------- links and archives

Tiles == <<"T1", "T2", "T3", "T4">>

Supported == {"srtm", "aster", "copernicus"}

\* parse_srtm_links / parse_aster_links / get_copernicus_links: one URL per
\* tile, a base followed by the tile's archive name
LinkOf(i, dt) ==
    <<"base", "/", Tiles[i], ".", (IF dt = "copernicus" THEN "tar" ELSE "zip")>>

\* the tile name a link carries
TileOf(link) == SplitFirst(BaseName(link))

\* what the upstream archive of a tile holds, by data source
GoodEntries(dt, link) ==
    LET T == TileOf(link)
    IN  IF dt = "srtm" THEN << T \o <<".", "hgt">> >>
        ELSE IF dt = "aster"
        THEN << T \o <<"_num", ".", "tif">>, T \o <<"_dem", ".", "tif">> >>
        ELSE << T \o <<".", "xml">>, T \o <<"/">> \o T \o <<"_DEM", ".", "dt2">> >>

\* an archive without an elevation member
OtherEntries(link) == << TileOf(link) \o <<"_num", ".", "tif">> >>

\* the bodies the server may answer a 200 with
Bodies(dt, link) ==
    {Archive(GoodEntries(dt, link)), Archive(OtherEntries(link)), Junk}

\* files a previous invocation may have left in geotiff/ellipsoidal
PriorNames ==
    UNION {{ <<Tiles[i], "_dem", "_wgs84ellps", ".", "tif">>,
             <<Tiles[i], "_wgs84ellps", ".", "hgt">> } : i \in 1..MaxPrior}

\* the URL a redirected probe ends at
RedirectOf(url) == <<"auth", "/">> \o BaseName(url)

\* ------------------------------------------------------------------- state

Terminal == {"done", "failed", "raised"}

NoJob == [pc |-> "none", count |-> 0, total |-> 0, final_url |-> <<>>,
          unzipped |-> <<>>, fault |-> FALSE, failed_at |-> "none",
          status |-> "none", errors |-> <<>>]

Init ==
    /\ mainpc = "main"
    /\ exit_status = -1
    /\ data_type \in Supported \cup {"other"}
    /\ convert \in BOOLEAN
    /\ unzip \in BOOLEAN
    /\ ellipsoidal \in BOOLEAN
    /\ skip \in BOOLEAN
    /\ threads_count \in 1..MaxThreads
    /\ \E n \in 0..MaxLinks :
         links = IF data_type \in Supported
                 THEN {LinkOf(i, data_type) : i \in 1..n} ELSE {}
    /\ prefixes_to_ignore = {}
    /\ pending = {}
    /\ count = 0
    /\ total = 0
    /\ queue = <<>>
    /\ jobs = [l \in links |-> NoJob]
    /\ \E prior \in SUBSET PriorNames :
         disk = [p \in {Path("ellipsoidal", n) : n \in prior} |-> Plain]
    /\ requests = [l \in links |-> <<>>]
    /\ calls = [l \in links |-> <<>>]
    /\ submitted = [l \in links |-> 0]
    /\ run = 1
    /\ first_run = [ellipsoidal |-> FALSE, all_done |-> FALSE, outputs |-> {}]

\* --------------------------------------------------------------- __main__

\* lines 361-376: an unsupported data type is logged and ends the process
\* with status 1 before download() is called
ParseArgs ==
    /\ mainpc = "main"
    /\ IF data_type \in Supported
       THEN /\ mainpc' = "download"
            /\ UNCHANGED exit_status
       ELSE /\ mainpc' = "exited"
            /\ exit_status' = 1
    /\ UNCHANGED <<args, skip, prefixes_to_ignore, pending, count, total, queue,
                   jobs, disk, requests, calls, submitted, run, first_run>>

\* lines 263-288: the enumerator raises (index file missing, non-200 answer);
\* the exception is not caught and the process ends with status 1
EnumerationFails ==
    /\ mainpc = "main"
    /\ data_type \in Supported
    /\ mainpc' = "exited"
    /\ exit_status' = 1
    /\ UNCHANGED <<args, skip, prefixes_to_ignore, pending, count, total, queue,
                   jobs, disk, requests, calls, submitted, run, first_run>>

\* ---------------------------------------------------------------- download()

\* line 212
TotalOf(ls) == Cardinality(ls)

\* line 219: the key of a file found in geotiff/ellipsoidal
IndexKey(name) == Replace(SplitFirst(name), <<"_dem", "_wgs84ellps">>)

\* lines 215-221
SkipIndex(d, sk) ==
    IF sk THEN {IndexKey(n) : n \in EllipsoidalNames(d)} ELSE {}

\* line 225
FileName(link) == BaseName(link)

\* every job downloads into one and the same file of the target folder
TargetPathShared(link) == Path("target", <<"download">>)

\* line 226
TargetPath(link) == Path("target", FileName(link))

\* line 228
SkipKey(link) == SplitFirst(TargetPath(link)[2])

\* the skip index is never consulted
ShouldSkipNever(link) == FALSE

\* lines 227-231
ShouldSkip(link) == skip /\ SkipKey(link) \in prefixes_to_ignore

\* lines 211-221: total, count, the output directory and the skip index
DownloadSetup ==
    /\ mainpc = "download"
    /\ total' = TotalOf(links)
    /\ count' = 0
    /\ prefixes_to_ignore' = SkipIndex(disk, skip)
    /\ pending' = links
    /\ mainpc' = "dispatch"
    /\ UNCHANGED <<exit_status, args, skip, queue, jobs, disk, requests, calls,
                   submitted, run, first_run>>

\* the index is read again from the output directory in every iteration
LoopIndexRecomputed == SkipIndex(disk, skip)

\* lines 224-246: the loop body reads prefixes_to_ignore and never assigns it
LoopIndex == prefixes_to_ignore

\* lines 224-231: one iteration of the for loop that takes the continue
SkipLink(link) ==
    /\ mainpc = "dispatch"
    /\ link \in pending
    /\ ShouldSkip(link)
    /\ pending' = pending \ {link}
    /\ prefixes_to_ignore' = LoopIndex
    /\ UNCHANGED <<mainpc, exit_status, args, skip, count,
                   total, queue, jobs, disk, requests, calls, submitted, run,
                   first_run>>

\* lines 224-246: one iteration of the for loop that submits process_file
SubmitLink(link) ==
    /\ mainpc = "dispatch"
    /\ link \in pending
    /\ ~ShouldSkip(link)
    /\ pending' = pending \ {link}
    /\ count' = count + 1
    /\ jobs' = [jobs EXCEPT ![link] =
                  [NoJob EXCEPT !.pc = "queued", !.count = count + 1,
                                !.total = total]]
    /\ queue' = Append(queue, link)
    /\ submitted' = [submitted EXCEPT ![link] = @ + 1]
    /\ prefixes_to_ignore' = LoopIndex
    /\ UNCHANGED <<mainpc, exit_status, args, skip, total,
                   disk, requests, calls, run, first_run>>

Running == {l \in links : jobs[l].pc \notin Terminal \cup {"none", "queued"}}

\* a pool that starts a thread for every submitted call
WorkerFreeUnbounded == TRUE

\* line 223: ThreadPoolExecutor(max_workers=threads_count) has a worker free
WorkerFree == Cardinality(Running) < threads_count

\* a worker thread of the pool takes the oldest submitted call and enters
\* process_file
StartJob(link) ==
    /\ queue # <<>>
    /\ link = Head(queue)
    /\ WorkerFree
    /\ queue' = Tail(queue)
    /\ jobs' = [jobs EXCEPT ![link].pc = "fetching"]
    /\ UNCHANGED <<mainpc, exit_status, args, skip, prefixes_to_ignore, pending,
                   count, total, disk, requests, calls, submitted, run,
                   first_run>>

\* the exit status reflects the jobs that failed
ExitCodeFromJobs ==
    IF \E l \in links : jobs[l].pc \in {"failed", "raised"} THEN 1 ELSE 0

\* line 389: the script runs off its end
ExitCode == 0

\* a shutdown that does not wait for the submitted calls
PoolIdleNoWait == TRUE

\* line 223, end of the with block: shutdown(wait=True) returns when no
\* submitted call is waiting or running
PoolIdle ==
    /\ queue = <<>>
    /\ \A l \in links : jobs[l].pc \in Terminal \cup {"none"}

\* line 223 (end of the with block) and line 389: the executor's shutdown waits
\* for every submitted call, whatever it returned or raised; nothing reads the
\* futures, download() returns and the process ends with status 0
DownloadReturns ==
    /\ mainpc = "dispatch"
    /\ pending = {}
    /\ PoolIdle
    /\ mainpc' = "exited"
    /\ exit_status' = ExitCode
    /\ UNCHANGED <<args, skip, prefixes_to_ignore, pending, count, total, queue,
                   jobs, disk, requests, calls, submitted, run, first_run>>

\* ------------------------------------------------------------ download_file()

\* a request as the server saw it, with whether the answer came with a
\* redirect history
Request(url, auth, history) == [url |-> url, auth |-> auth, history |-> history]

\* the authenticated request goes to the URL the job was given
FinalUrlOriginal(url, redirected) == url

\* lines 113-118: the URL the authenticated request is sent to
FinalUrl(url, redirected) == IF redirected THEN RedirectOf(url) ELSE url

\* a logger.error line, with the URL and the path it names
ErrorEntry(msg, url, path) == [msg |-> msg, url |-> url, path |-> path]

\* logger.error
LogError(job, entry) == [job EXCEPT !.errors = Append(@, entry)]

\* the except clause starts the download again
FailRetry(job) == [job EXCEPT !.pc = "fetching"]

\* lines 145-147: the except clause ends the job
Fail(job) == [job EXCEPT !.pc = "failed", !.fault = TRUE, !.failed_at = "fetch"]

\* line 146
DownloadError(link) == ErrorEntry("Failed to download", link, TargetPath(link))

\* the target is opened before the status is looked at
DiskAfterStatusErrorTruncated(d, p) == WriteFile(d, p, Junk)

\* lines 123-127: the DownloadException is raised before open(target_path)
DiskAfterStatusError(d, p) == d

\* line 112: the unauthenticated probe.  It raises (caught at line 145), or
\* answers with or without a redirect history.
Probe(link) ==
    /\ jobs[link].pc = "fetching"
    /\ \/ /\ requests' = [requests EXCEPT
                            ![link] = Append(@, Request(link, FALSE, FALSE))]
          /\ jobs' = [jobs EXCEPT ![link] = LogError(Fail(@), DownloadError(link))]
       \/ \E redirected \in BOOLEAN :
            /\ requests' = [requests EXCEPT
                  ![link] = Append(@, Request(link, FALSE, redirected))]
            /\ jobs' = [jobs EXCEPT
                  ![link].pc = "authing",
                  ![link].final_url = FinalUrl(link, redirected)]
    /\ UNCHANGED <<mainpc, exit_status, args, skip, prefixes_to_ignore, pending,
                   count, total, queue, disk, calls, submitted, run, first_run>>

\* lines 120-128 and 145-147: the authenticated request.  The request raises
\* or answers a status other than 200 (DownloadException, raised before the
\* target is opened); or the target is opened for writing and the copy breaks
\* off; or the body is written in full.  Every exception is caught at line 145.
AuthGet(link) ==
    /\ jobs[link].pc = "authing"
    /\ requests' = [requests EXCEPT
                      ![link] = Append(@, Request(jobs[link].final_url, TRUE, FALSE))]
    /\ \/ /\ jobs' = [jobs EXCEPT ![link] = LogError(Fail(@), DownloadError(link))]
          /\ UNCHANGED disk
       \/ /\ jobs' = [jobs EXCEPT
                ![link] = LogError(Fail([@ EXCEPT !.status = "denied"]),
                                   DownloadError(link))]
          /\ disk' = DiskAfterStatusError(disk, TargetPath(link))
       \/ /\ jobs' = [jobs EXCEPT
                ![link] = LogError(Fail([@ EXCEPT !.status = "ok"]),
                                   DownloadError(link))]
          /\ disk' = WriteFile(disk, TargetPath(link), Junk)
       \/ \E body \in Bodies(data_type, link) :
            /\ disk' = WriteFile(disk, TargetPath(link), body)
            /\ jobs' = [jobs EXCEPT
                  ![link].pc = "fetched",
                  ![link].status = "ok",
                  ![link].final_url = <<>>,
                  ![link].fault = (body # Archive(GoodEntries(data_type, link)))]
    /\ UNCHANGED <<mainpc, exit_status, args, skip, prefixes_to_ignore, pending,
                   count, total, queue, calls, submitted, run, first_run>>

\* ------------------------------------------------------------- process_file()

\* line 152
WantsUnpack == unzip \/ convert \/ ellipsoidal

\* lines 148-152: the existence check, the progress log and the mode test
CheckFetched(link) ==
    /\ jobs[link].pc = "fetched"
    /\ jobs' = [jobs EXCEPT ![link].pc =
                  IF ~Exists(disk, TargetPath(link)) THEN "failed"
                  ELSE IF WantsUnpack THEN "unpacking" ELSE "done",
                            ![link].failed_at =
                  IF ~Exists(disk, TargetPath(link)) THEN "fetch" ELSE @,
                            ![link].errors =
                  IF ~Exists(disk, TargetPath(link))
                  THEN Append(@, ErrorEntry("Target file does not exist",
                                            <<>>, TargetPath(link)))
                  ELSE @]
    /\ UNCHANGED <<mainpc, exit_status, args, skip, prefixes_to_ignore, pending,
                   count, total, queue, disk, requests, calls, submitted, run,
                   first_run>>

IsDem(name) == Contains(name, "_dem")         \* line 166
IsDt2(name) == Suffix(BaseName(name)) = <<".", "dt2">>   \* line 177

\* the zip kinds both look for the elevation layer, the tar kind takes the
\* first member
SelectPayloadUniform(dt, entries) ==
    LET found == IF dt = "copernicus" THEN entries
                 ELSE SelectSeq(entries, IsDem)
    IN  IF found = <<>>
        THEN [status |-> "missing", name |-> <<>>]
        ELSE [status |-> "ok", name |-> found[1]]

\* lines 156-184: the archive member process_file takes as the payload;
\* "raise" is filelist[0] of an empty list, "missing" the logged early return
SelectPayload(dt, entries) ==
    IF dt = "srtm"
    THEN IF entries = <<>>
         THEN [status |-> "raise", name |-> <<>>]
         ELSE [status |-> "ok", name |-> entries[1]]
    ELSE LET found == IF dt = "aster" THEN SelectSeq(entries, IsDem)
                      ELSE SelectSeq(entries, IsDt2)
         IN  IF found = <<>>
             THEN [status |-> "missing", name |-> <<>>]
             ELSE [status |-> "ok", name |-> found[1]]

\* lines 161, 171, 184: the directory the payload is extracted into
UnpackDir(dt) == IF dt = "aster" THEN "geotiff" ELSE "target"

\* lines 163, 172, 183: extractall for the zip kinds, extract of the one member
\* for the tar kind
Extract(d, dt, entries, name) ==
    IF dt = "copernicus" THEN WriteFile(d, Path(UnpackDir(dt), name), Plain)
    ELSE WriteAll(d, UnpackDir(dt), entries)

\* lines 153-184: open the archive (a file that is no archive raises out of
\* process_file), select the payload, extract
Unpack(link) ==
    /\ jobs[link].pc = "unpacking"
    /\ LET file == disk[TargetPath(link)]
           sel == SelectPayload(data_type, file.entries)
       IN  IF ~Exists(disk, TargetPath(link)) \/ file.kind # "archive"
              \/ sel.status = "raise"
           THEN /\ jobs' = [jobs EXCEPT ![link].pc = "raised",
                                        ![link].failed_at = "unpack"]
                /\ UNCHANGED disk
           ELSE IF sel.status = "missing"
           THEN /\ jobs' = [jobs EXCEPT
                      ![link].pc = "failed",
                      ![link].failed_at = "unpack",
                      ![link].errors =
                          Append(@, ErrorEntry("Failed to find the payload",
                                               <<>>, TargetPath(link)))]
                /\ UNCHANGED disk
           ELSE /\ disk' = Extract(disk, data_type, file.entries, sel.name)
                /\ jobs' = [jobs EXCEPT
                      ![link].pc = "unpacked",
                      ![link].unzipped = Path(UnpackDir(data_type), sel.name)]
    /\ UNCHANGED <<mainpc, exit_status, args, skip, prefixes_to_ignore, pending,
                   count, total, queue, requests, calls, submitted, run,
                   first_run>>

\* the plain conversion is run for every data type
WantsConversionAnyKind == ellipsoidal \/ convert

\* lines 186-195: whether a conversion follows the unpacking
WantsConversion == ellipsoidal \/ (convert /\ data_type = "srtm")

\* line 185 and the tests of lines 186 and 193: the archive is deleted, then
\* the job goes on to a conversion or ends
DeleteArchive(link) ==
    /\ jobs[link].pc = "unpacked"
    /\ IF Exists(disk, TargetPath(link))
       THEN /\ disk' = Unlink(disk, TargetPath(link))
            /\ jobs' = [jobs EXCEPT ![link].pc =
                          IF WantsConversion THEN "converting" ELSE "done"]
       ELSE /\ jobs' = [jobs EXCEPT ![link].pc = "raised",
                                    ![link].failed_at = "unpack"]
            /\ UNCHANGED disk
    /\ UNCHANGED <<mainpc, exit_status, args, skip, prefixes_to_ignore, pending,
                   count, total, queue, requests, calls, submitted, run,
                   first_run>>

\* ------------------------------------------------------------ the converters

Call(tool, input, output) == [tool |-> tool, input |-> input, output |-> output]

\* subprocess.run of an external tool: the output is written when the tool
\* succeeds on an existing input; its exit status is not looked at
RunTool(d, input, output, ok) ==
    IF ok /\ Exists(d, input) THEN WriteFile(d, output, Plain) ELSE d

\* the ellipsoidal raster is put beside the plain ones
EllipsoidalPathInGeotiff(unzipped) == Path("geotiff", BaseName(unzipped[2]))

\* line 187: geotiff_folder / "ellipsoidal" / unzipped_file_path.name
EllipsoidalPath(unzipped) == Path("ellipsoidal", BaseName(unzipped[2]))

\* lines 47-49: the path hgt_tif_to_geotif_ellipsoidal hands to gdalwarp
EllipsoidalOutput(output_path) ==
    Path(output_path[1],
         Stem(output_path[2]) \o <<"_wgs84ellps">> \o Suffix(output_path[2]))

\* line 70
CopernicusTif(output_path) ==
    Path(output_path[1], WithSuffix(output_path[2], <<".", "tif">>))

\* line 84
CopernicusOutput(output_path) ==
    Path(output_path[1], Stem(output_path[2]) \o <<"_wgs84ellps", ".", "tif">>)

\* line 194: geotiff_folder / unzipped_file_path.with_suffix(".tiff").name
PlainPath(unzipped) ==
    Path("geotiff", WithSuffix(BaseName(unzipped[2]), <<".", "tiff">>))

\* lines 45-64
hgt_tif_to_geotif_ellipsoidal(link, input_path, output_path, ok) ==
    /\ calls' = [calls EXCEPT ![link] =
          Append(@, Call("gdalwarp", input_path, EllipsoidalOutput(output_path)))]
    /\ disk' = RunTool(disk, input_path, EllipsoidalOutput(output_path), ok)
    /\ jobs' = [jobs EXCEPT ![link].pc = "done", ![link].fault = @ \/ ~ok]

\* lines 37-42
hgt_to_geotif(link, hgt_path, geotif_path, ok) ==
    /\ calls' = [calls EXCEPT ![link] =
          Append(@, Call("gdal_translate", hgt_path, geotif_path))]
    /\ disk' = RunTool(disk, hgt_path, geotif_path, ok)
    /\ jobs' = [jobs EXCEPT ![link].pc = "done", ![link].fault = @ \/ ~ok]

\* line 108: what convert_copernicus leaves on disk once both tools have run
CopernicusCleanup(d, output_path) == Unlink(d, CopernicusOutput(output_path))

\* lines 67-108: gdal_translate trims the overlap into <stem>.tif, gdalwarp
\* writes <stem>_wgs84ellps.tif, and line 108 unlinks that path (raising out of
\* process_file when gdalwarp left nothing there)
convert_copernicus(link, input_path, output_path, ok1, ok2) ==
    LET tif == CopernicusTif(output_path)
        out == CopernicusOutput(output_path)
        d1 == RunTool(disk, input_path, tif, ok1)
        d2 == RunTool(d1, tif, out, ok2)
    IN  /\ calls' = [calls EXCEPT ![link] =
              @ \o << Call("gdal_translate", input_path, tif),
                      Call("gdalwarp", tif, out) >>]
        /\ disk' = IF Exists(d2, out) THEN CopernicusCleanup(d2, output_path)
                   ELSE d2
        /\ jobs' = [jobs EXCEPT
              ![link].pc = IF Exists(d2, out) THEN "done" ELSE "raised",
              ![link].failed_at = IF Exists(d2, out) THEN @ ELSE "convert",
              ![link].fault = @ \/ ~ok1 \/ ~ok2]

\* lines 186-195
Convert(link) ==
    /\ jobs[link].pc = "converting"
    /\ \E ok1 \in BOOLEAN, ok2 \in BOOLEAN :
         LET unzipped == jobs[link].unzipped
         IN  IF ellipsoidal
             THEN IF data_type = "copernicus"
                  THEN convert_copernicus(link, unzipped,
                                          EllipsoidalPath(unzipped), ok1, ok2)
                  ELSE /\ ok2
                       /\ hgt_tif_to_geotif_ellipsoidal(
                              link, unzipped, EllipsoidalPath(unzipped), ok1)
             ELSE /\ ok2
                  /\ hgt_to_geotif(link, unzipped, PlainPath(unzipped), ok1)
    /\ UNCHANGED <<mainpc, exit_status, args, skip, prefixes_to_ignore, pending,
                   count, total, queue, requests, submitted, run, first_run>>

\* ------------------------------------------------------------ specifications

Next ==
    \/ ParseArgs
    \/ EnumerationFails
    \/ DownloadSetup
    \/ \E link \in links : SkipLink(link)
    \/ \E link \in links : SubmitLink(link)
    \/ \E link \in links : StartJob(link)
    \/ \E link \in links : Probe(link)
    \/ \E link \in links : AuthGet(link)
    \/ \E link \in links : CheckFetched(link)
    \/ \E link \in links : Unpack(link)
    \/ \E link \in links : DeleteArchive(link)
    \/ \E link \in links : Convert(link)
    \/ DownloadReturns

Spec == Init /\ [][Next]_vars

\* ----------------------------------------------- a second invocation (resume)

\* The program is invoked again on the same target folder with --skip-if-exist
\* added; the enumerators return the same links.  Lines 357-389 start over on
\* the disk the first invocation left.
Rerun ==
    /\ mainpc = "exited"
    /\ exit_status = 0
    /\ run < MaxRuns
    /\ run' = run + 1
    /\ first_run' =
         [ellipsoidal |-> ellipsoidal,
          all_done |-> \A l \in links : jobs[l].pc = "done" /\ ~jobs[l].fault,
          outputs |-> {calls[l][Len(calls[l])].output :
                          l \in {k \in links : calls[k] # <<>>}}]
    /\ skip' = TRUE
    /\ mainpc' = "main"
    /\ exit_status' = -1
    /\ prefixes_to_ignore' = {}
    /\ pending' = {}
    /\ count' = 0
    /\ total' = 0
    /\ queue' = <<>>
    /\ jobs' = [l \in links |-> NoJob]
    /\ requests' = [l \in links |-> <<>>]
    /\ calls' = [l \in links |-> <<>>]
    /\ submitted' = [l \in links |-> 0]
    /\ UNCHANGED <<args, disk>>

\* a first invocation with --ellipsoidal alone on an empty target folder
InitResume ==
    /\ Init
    /\ data_type \in Supported
    /\ ellipsoidal /\ ~convert /\ ~unzip /\ ~skip
    /\ DOMAIN disk = {}

SpecResume == InitResume /\ [][Next \/ Rerun]_vars

\* ------------------------------------------------- the unpack stage on its own

EntryNames ==
    { <<"A", ".", "hdr">>, <<"A", "_dem", ".", "tif">>,
      <<"B", "_dem", ".", "tif">>, <<"A", "_num", ".", "tif">>,
      <<"A", ".", "hgt">>, <<"A", ".", "dt2">>,
      <<"d", "/", "B", ".", "dt2">> }

EntryLists == UNION {[1..n -> EntryNames] : n \in 0..MaxEntries}

\* process_file at line 153 for one link whose download has put an archive
\* with an arbitrary entry list on disk
InitUnpack ==
    /\ mainpc = "dispatch"
    /\ exit_status = -1
    /\ data_type \in Supported
    /\ convert \in BOOLEAN
    /\ unzip = TRUE
    /\ ellipsoidal \in BOOLEAN
    /\ skip = FALSE
    /\ threads_count = 1
    /\ links = {LinkOf(1, data_type)}
    /\ prefixes_to_ignore = {}
    /\ pending = {}
    /\ count = 1
    /\ total = 1
    /\ queue = <<>>
    /\ jobs = [l \in links |->
                 [NoJob EXCEPT !.pc = "unpacking", !.count = 1, !.total = 1]]
    /\ \E entries \in EntryLists :
         disk = [p \in {TargetPath(LinkOf(1, data_type))} |-> Archive(entries)]
    /\ requests = [l \in links |->
                     <<Request(l, FALSE, FALSE), Request(l, TRUE, FALSE)>>]
    /\ calls = [l \in links |-> <<>>]
    /\ submitted = [l \in links |-> 1]
    /\ run = 1
    /\ first_run = [ellipsoidal |-> FALSE, all_done |-> FALSE, outputs |-> {}]

NextUnpack ==
    \/ \E link \in links : Unpack(link)
    \/ \E link \in links : DeleteArchive(link)
    \/ \E link \in links : Convert(link)

SpecUnpack == InitUnpack /\ [][NextUnpack]_vars

\* ------------------------------------------- a full batch without resume mode

\* every enumerated tile is in the batch, the target folder is empty and
\* --skip-if-exist is not given
InitBatch ==
    /\ Init
    /\ data_type \in Supported
    /\ Cardinality(links) = MaxLinks
    /\ ~skip
    /\ DOMAIN disk = {}

\* without --skip-if-exist the for loop never takes the continue of line 231
NextBatch ==
    \/ ParseArgs
    \/ EnumerationFails
    \/ DownloadSetup
    \/ \E link \in links : SubmitLink(link)
    \/ \E link \in links : StartJob(link)
    \/ \E link \in links : Probe(link)
    \/ \E link \in links : AuthGet(link)
    \/ \E link \in links : CheckFetched(link)
    \/ \E link \in links : Unpack(link)
    \/ \E link \in links : DeleteArchive(link)
    \/ \E link \in links : Convert(link)
    \/ DownloadReturns

\* every stage of a job returns or raises and the pool's worker threads keep
\* being scheduled
FairBatchSpec == InitBatch /\ [][NextBatch]_vars /\ WF_vars(NextBatch)

\* ------------------------------------- a batch of URLs that share a file name

\* get_copernicus_links returns the nativeDemUrl values of the server's answer
\* as they are: two distinct URLs of a batch may end in the same file name
MirrorLinks ==
    { <<"base", "/", "a", "/", Tiles[1], ".", "tar">>,
      <<"base", "/", "b", "/", Tiles[1], ".", "tar">> }

\* a COPERNICUS invocation over such a batch, into an empty target folder
InitMirrors ==
    /\ mainpc = "main"
    /\ exit_status = -1
    /\ data_type = "copernicus"
    /\ convert \in BOOLEAN
    /\ unzip \in BOOLEAN
    /\ ellipsoidal \in BOOLEAN
    /\ skip = FALSE
    /\ threads_count \in 1..MaxThreads
    /\ links = MirrorLinks
    /\ prefixes_to_ignore = {}
    /\ pending = {}
    /\ count = 0
    /\ total = 0
    /\ queue = <<>>
    /\ jobs = [l \in links |-> NoJob]
    /\ disk = << >>
    /\ requests = [l \in links |-> <<>>]
    /\ calls = [l \in links |-> <<>>]
    /\ submitted = [l \in links |-> 0]
    /\ run = 1
    /\ first_run = [ellipsoidal |-> FALSE, all_done |-> FALSE, outputs |-> {}]

SpecMirrors == InitMirrors /\ [][NextBatch]_vars

\* ------------------------------------------------------------------ claims

Dispatched(link) == link \in links /\ jobs[link].pc # "none"

FetchFailed(link) ==
    link \in links /\ jobs[link].pc = "failed" /\ jobs[link].failed_at = "fetch"

\* the link of tile i in this invocation
LinkAt(i) == LinkOf(i, data_type)

\* C1 (failure isolation): whenever the fetch stage of a dispatched job A has
\* failed, every other dispatched job B goes on to a terminal state, and B ends
\* done unless a stage of B itself was made to fail.
C1_FailureIsolation ==
    \A i \in 1..MaxLinks, j \in 1..MaxLinks :
        [](( /\ i # j
             /\ FetchFailed(LinkAt(i))
             /\ Dispatched(LinkAt(j)) )
           => <>( /\ LinkAt(j) \in links
                  /\ jobs[LinkAt(j)].pc \in Terminal
                  /\ (~jobs[LinkAt(j)].fault => jobs[LinkAt(j)].pc = "done") ))

\* C1 witness: one job has failed in its fetch stage and another one, whose
\* own stages were not disturbed, is done
C1_Witness ==
    \E a \in links, b \in links :
        /\ a # b
        /\ FetchFailed(a)
        /\ jobs[b].pc = "done"
        /\ ~jobs[b].fault

\* C2 (concurrency bound): the jobs that have entered process_file and have
\* not left it are never more than threads_count.
C2_ConcurrencyBound == Cardinality(Running) <= threads_count

\* C2 witness: the pool is full and a submitted job is waiting for a worker
C2_Witness ==
    /\ Cardinality(Running) = threads_count
    /\ queue # <<>>

\* C5 (redirect, then authenticate): the first request of a job is the
\* unauthenticated probe of the job's URL; only one authenticated request
\* follows it, to the redirect target when the probe's answer had a redirect
\* history and to the job's URL when it had none.
C5_RedirectThenAuth ==
    \A l \in links :
        LET r == requests[l]
        IN  /\ Len(r) <= 2
            /\ Len(r) >= 1 => r[1] = Request(l, FALSE, r[1].history)
            /\ Len(r) = 2 =>
                 /\ r[2].auth
                 /\ r[1].history => r[2].url = RedirectOf(l) /\ r[2].url # l
                 /\ ~r[1].history => r[2].url = l

\* C5 witness: a probe was redirected and the authenticated request has been
\* sent
C5_Witness ==
    \E l \in links :
        /\ Len(requests[l]) = 2
        /\ requests[l][1].history
        /\ requests[l][2].auth

\* C3 (resume-mode idempotence), as claimed: when the first invocation ran
\* with --ellipsoidal, ended with every link's job done and left each job's
\* gdalwarp output in geotiff/ellipsoidal, the second invocation with
\* --skip-if-exist submits no job and issues no request.
C3_ResumeIdempotent ==
    ( /\ run = 2
      /\ first_run.ellipsoidal
      /\ first_run.all_done
      /\ Cardinality(first_run.outputs) = Cardinality(links)
      /\ first_run.outputs \subseteq DOMAIN disk )
    => \A l \in links : submitted[l] = 0 /\ requests[l] = <<>>

\* the archive name of a link is <tile>.zip and its payload is <tile>.hgt
IsTileZip(link) == BaseName(link) = TileOf(link) \o <<".", "zip">>
HgtOf(link) == Path("target", TileOf(link) \o <<".", "hgt">>)

\* C4 (end-to-end ellipsoidal run), as claimed: an SRTM job for .../T.zip that
\* unpacked T.hgt and finished with --ellipsoidal asked gdalwarp for
\* geotiff/ellipsoidal/T_wgs84ellps.tiff, and <target>/T.zip is gone.
C4_EllipsoidalEndToEnd ==
    \A l \in links :
        ( /\ data_type = "srtm"
          /\ ellipsoidal
          /\ IsTileZip(l)
          /\ jobs[l].pc = "done"
          /\ jobs[l].unzipped = HgtOf(l) )
        => /\ \E i \in 1..Len(calls[l]) :
                calls[l][i].output =
                    Path("ellipsoidal",
                         TileOf(l) \o <<"_wgs84ellps", ".", "tiff">>)
           /\ ~Exists(disk, Path("target", TileOf(l) \o <<".", "zip">>))

\* the entry list of the archive a job is unpacking or has unpacked
EntriesOf(link) == disk[TargetPath(link)].entries

\* the entry is named with the extension .dt2
HasDt2Extension(e) ==
    Len(e) > 2 /\ e[Len(e) - 1] = "." /\ e[Len(e)] = "dt2" /\ e[Len(e) - 2] # "/"

\* entry i is the first entry of the list with property P
FirstWith(entries, i, P(_)) ==
    /\ i \in 1..Len(entries)
    /\ P(entries[i])
    /\ \A k \in 1..(i - 1) : ~P(entries[k])

\* C6 (archive-selection policy): once the unpack stage has run on an archive,
\* an ASTER job has taken the first entry containing "_dem" and has failed,
\* with no tool invoked, when there is none; an SRTM job has taken the first
\* entry whatever its name; a COPERNICUS job has taken the first member with
\* the extension .dt2 and has failed when there is none.
C6_ArchiveSelection ==
    \A l \in links :
        ( /\ jobs[l].pc \in {"unpacked", "failed"}
          /\ Exists(disk, TargetPath(l))
          /\ disk[TargetPath(l)].kind = "archive" )
        => LET es == EntriesOf(l)
               taken == jobs[l].unzipped
               IsDemEntry(e) == \E k \in 1..Len(e) : e[k] = "_dem"
           IN  /\ data_type = "aster" =>
                    IF \E i \in 1..Len(es) : IsDemEntry(es[i])
                    THEN /\ jobs[l].pc = "unpacked"
                         /\ \E i \in 1..Len(es) :
                              FirstWith(es, i, IsDemEntry) /\ taken[2] = es[i]
                    ELSE jobs[l].pc = "failed" /\ calls[l] = <<>>
               /\ data_type = "srtm" =>
                    /\ jobs[l].pc = "unpacked"
                    /\ es # <<>>
                    /\ taken[2] = es[1]
               /\ data_type = "copernicus" =>
                    IF \E i \in 1..Len(es) : HasDt2Extension(es[i])
                    THEN /\ jobs[l].pc = "unpacked"
                         /\ \E i \in 1..Len(es) :
                              FirstWith(es, i, HasDt2Extension) /\ taken[2] = es[i]
                    ELSE jobs[l].pc = "failed" /\ calls[l] = <<>>

\* C6 witness: an ASTER job has unpacked [A.hdr, A_dem.tif, A_num.tif] and has
\* taken A_dem.tif
C6_Witness ==
    \E l \in links :
        /\ data_type = "aster"
        /\ jobs[l].pc = "unpacked"
        /\ Exists(disk, TargetPath(l))
        /\ EntriesOf(l) = << <<"A", ".", "hdr">>, <<"A", "_dem", ".", "tif">>,
                             <<"A", "_num", ".", "tif">> >>
        /\ jobs[l].unzipped = Path("geotiff", <<"A", "_dem", ".", "tif">>)

\* C7 (exit behaviour): an unsupported data type takes the process from the
\* argument handling straight to exit status 1, and a process that ends with
\* status 1 has dispatched nothing; the process leaves download() only with
\* status 0, whatever its jobs did.
C7_ExitBehaviour ==
    [][ /\ (mainpc = "main" /\ data_type \notin Supported)
           => (mainpc' = "exited" /\ exit_status' = 1)
        /\ (mainpc \in {"download", "dispatch"} /\ mainpc' = "exited")
           => exit_status' = 0
        /\ exit_status' = 1
           => /\ queue' = <<>>
              /\ \A l \in links' : submitted'[l] = 0 /\ jobs'[l].pc = "none"
      ]_vars

\* C7 witness: the process has ended with status 0 after one job failed in its
\* fetch stage and another one raised inside the worker
C7_Witness ==
    /\ mainpc = "exited"
    /\ exit_status = 0
    /\ \E a \in links, b \in links :
         FetchFailed(a) /\ jobs[b].pc = "raised"

\* the skip policy omits the link: skip is enabled and the file name before
\* its first "." is in the skip index
Omitted(link) ==
    skip /\ SplitFirst(BaseName(link)) \in prefixes_to_ignore

IsProbe(r) == ~r.auth

\* C8 (dispatch exactly once or never): a link the skip policy omits is never
\* submitted and never fetched; every other link is submitted exactly once by
\* the time the loop has visited it, and when download() has returned its
\* process_file has run once, to a terminal state.
C8_DispatchOnceOrNever ==
    \A l \in links :
        /\ submitted[l] <= 1
        /\ Omitted(l) =>
             submitted[l] = 0 /\ jobs[l].pc = "none" /\ requests[l] = <<>>
        /\ (~Omitted(l) /\ mainpc = "dispatch" /\ l \notin pending) =>
             submitted[l] = 1 /\ jobs[l].pc # "none"
        /\ (~Omitted(l) /\ mainpc = "exited" /\ exit_status = 0) =>
             /\ submitted[l] = 1
             /\ jobs[l].pc \in Terminal
             /\ Len(SelectSeq(requests[l], IsProbe)) = 1

\* C8 witness: download() has returned after omitting one link and running
\* another one
C8_Witness ==
    /\ mainpc = "exited"
    /\ exit_status = 0
    /\ \E a \in links, b \in links :
         /\ Omitted(a) /\ submitted[a] = 0
         /\ ~Omitted(b) /\ submitted[b] = 1 /\ jobs[b].pc \in Terminal

\* C9 (skipped jobs are not counted), as claimed: the total handed to every
\* dispatched job is the number of jobs dispatched in the run.
C9_TotalIsDispatched ==
    \A l \in links :
        (mainpc = "exited" /\ Dispatched(l))
        => jobs[l].total = Cardinality({k \in links : submitted[k] > 0})

\* C10 (staged files never outlive their job), as claimed: when a job that
\* asked for unzip, convert or ellipsoidal is done, failed or has raised,
\* neither its archive nor its unpacked payload is on disk.
C10_StagedFilesRemoved ==
    \A l \in links :
        (WantsUnpack /\ jobs[l].pc \in Terminal)
        => /\ ~Exists(disk, Path("target", BaseName(l)))
           /\ jobs[l].unzipped # <<>> => ~Exists(disk, jobs[l].unzipped)

\* C10, amended: when a job that asked for unzip, convert or ellipsoidal is
\* done, its archive is no longer on disk; its unpacked payload still is.
C10_ArchiveRemovedWhenDone ==
    \A l \in links :
        (WantsUnpack /\ jobs[l].pc = "done")
        => /\ ~Exists(disk, Path("target", BaseName(l)))
           /\ jobs[l].unzipped # <<>>
           /\ Exists(disk, jobs[l].unzipped)

\* C10 witness: a job has unpacked its archive and is done
C10_Witness ==
    \E l \in links :
        /\ WantsUnpack
        /\ jobs[l].pc = "done"
        /\ jobs[l].unzipped # <<>>

\* the path the ellipsoidal raster of a COPERNICUS payload is documented at:
\* geotiff/ellipsoidal/<payload stem>_wgs84ellps.tif
EllipsoidalArtifact(unzipped) ==
    Path("ellipsoidal",
         Stem(BaseName(unzipped[2])) \o <<"_wgs84ellps", ".", "tif">>)

\* C11 (the COPERNICUS ellipsoidal artifact is kept), as claimed: when a
\* COPERNICUS job with ellipsoidal enabled is done and both tools produced
\* their outputs, geotiff/ellipsoidal/<payload stem>_wgs84ellps.tif is on disk.
C11_CopernicusArtifactKept ==
    \A l \in links :
        (/\ data_type = "copernicus"
         /\ ellipsoidal
         /\ jobs[l].pc = "done"
         /\ ~jobs[l].fault)
        => Exists(disk, EllipsoidalArtifact(jobs[l].unzipped))

\* the directories the conversion tools of a job were asked to write into
OutputDirs(l) == {calls[l][i].output[1] : i \in 1..Len(calls[l])}

\* C12 (conversion outputs per job), as claimed: a job run with both convert
\* and ellipsoidal enabled that is done has run the plain conversion into
\* geotiff/ and the ellipsoidal conversion into geotiff/ellipsoidal/.
C12_BothConversionsRun ==
    \A l \in links :
        (convert /\ ellipsoidal /\ jobs[l].pc = "done")
        => {"geotiff", "ellipsoidal"} \subseteq OutputDirs(l)

\* C12, amended: a job runs at most one conversion.  With ellipsoidal enabled
\* every tool it runs writes under geotiff/ellipsoidal/ (also when convert is
\* enabled too); otherwise a tool runs only for convert on SRTM data, once,
\* writing under geotiff/; the COPERNICUS conversion is the only one made of
\* two tool runs.
C12_OneConversionPerJob ==
    \A l \in links :
        /\ Len(calls[l]) <= (IF data_type = "copernicus" THEN 2 ELSE 1)
        /\ (calls[l] # <<>> /\ ellipsoidal) => OutputDirs(l) = {"ellipsoidal"}
        /\ (calls[l] # <<>> /\ ~ellipsoidal)
           => /\ convert /\ data_type = "srtm"
              /\ OutputDirs(l) = {"geotiff"}

\* C12 witness: a job run with both flags is done after a conversion
C12_Witness ==
    \E l \in links :
        /\ convert /\ ellipsoidal
        /\ jobs[l].pc = "done"
        /\ calls[l] # <<>>

\* the stage of the claimed state machine a position of process_file is in:
\* a submitted call not yet started is pending, both requests of download_file
\* are fetching, and an exception that leaves process_file is a failure
StageOf(pc) ==
    CASE pc = "queued" -> "pending"
      [] pc \in {"fetching", "authing"} -> "fetching"
      [] pc \in {"failed", "raised"} -> "failed"
      [] OTHER -> pc

\* the moves of the claimed state machine; the end of a conversion is the end
\* of the job, so converted and done are one state
StageMoves ==
    { <<"none", "pending">>, <<"pending", "fetching">>,
      <<"fetching", "fetched">>, <<"fetched", "unpacking">>,
      <<"fetched", "done">>, <<"unpacking", "unpacked">>,
      <<"unpacked", "converting">>, <<"unpacked", "done">>,
      <<"converting", "done">> }
    \cup { <<s, "failed">> :
             s \in {"fetching", "fetched", "unpacking", "unpacked", "converting"} }

\* C13 (per-job state machine): every step that moves a job moves it along
\* pending -> fetching -> fetched -> (unpacking -> unpacked)? ->
\* (converting)? -> done or into failed; unpacking starts only from fetched
\* with the target file on disk, converting only from unpacked; done and
\* failed are never left; and no stage runs twice: a job sends at most the
\* two requests of one download and never returns to a position it has left.
C13_JobStateMachine ==
    [][\A l \in links :
         LET from == jobs[l].pc
             to == jobs'[l].pc
         IN  /\ from # to
                => \/ <<from, to>> = <<"fetching", "authing">>
                   \/ <<StageOf(from), StageOf(to)>> \in StageMoves
             /\ (to = "unpacking" /\ from # to)
                => from = "fetched" /\ Exists(disk, TargetPath(l))
             /\ (to = "converting" /\ from # to) => from = "unpacked"
             /\ from \in Terminal => to = from
             /\ Len(requests'[l]) <= 2
             /\ Len(calls'[l]) <= 2]_vars

\* C13 witness: one job went through every stage and is done while another
\* one has failed
C13_Witness ==
    \E a \in links, b \in links :
        /\ jobs[a].pc = "done"
        /\ jobs[a].unzipped # <<>>
        /\ calls[a] # <<>>
        /\ jobs[b].pc = "failed"

\* download() has run to its end: the script ends with status 0 only by
\* running off line 389
DownloadReturned == mainpc = "exited" /\ exit_status = 0

\* C14 (orchestrator completion): download() has returned only when every
\* dispatched job is done, failed or has raised; and once download() has been
\* entered, with every stage of every job returning or raising and the
\* workers kept scheduled, it eventually returns.
C14_OrchestratorCompletion ==
    /\ [](DownloadReturned
          => \A l \in links : Dispatched(l) => jobs[l].pc \in Terminal)
    /\ [](mainpc = "dispatch" => <>DownloadReturned)

\* C14 witness: download() has returned after a batch in which one job raised
\* inside the worker and another one finished
C14_Witness ==
    /\ DownloadReturned
    /\ \E a \in links, b \in links :
         /\ jobs[a].pc = "raised"
         /\ jobs[b].pc = "done"

\* an error log entry of the job of link l that names its URL or target path
NamesJob(entry, l) == entry.url = l \/ entry.path = Path("target", BaseName(l))

\* C15 (a failure at any stage is caught and logged), as claimed: a job whose
\* fetch, unpack or convert stage has failed has ended inside process_file
\* (no exception left it) with an error log entry naming its URL or its
\* target path.
C15_FailuresCaughtAndLogged ==
    \A l \in links :
        (jobs[l].pc \in Terminal /\ jobs[l].failed_at # "none")
        => /\ jobs[l].pc = "failed"
           /\ \E i \in 1..Len(jobs[l].errors) : NamesJob(jobs[l].errors[i], l)

\* C16 (the skip index is a read-only snapshot): no job is submitted before
\* download() has computed prefixes_to_ignore, and from then on no step of the
\* run changes it, so the links still to be visited are skipped or not
\* exactly as they were when the loop began, whatever the running jobs write.
C16_SkipIndexSnapshot ==
    [][/\ mainpc \notin {"dispatch", "exited"}
          => \A l \in links : submitted[l] = 0
       /\ mainpc \in {"dispatch", "exited"}
          => /\ prefixes_to_ignore' = prefixes_to_ignore
             /\ \A l \in pending' :
                  (skip' /\ SkipKey(l) \in prefixes_to_ignore') <=> ShouldSkip(l)
      ]_vars

\* C16 witness: in resume mode, while links are still to be visited, a running
\* job has added a file to geotiff/ellipsoidal/ that the snapshot does not
\* account for
C16_Witness ==
    /\ skip
    /\ mainpc = "dispatch"
    /\ pending # {}
    /\ SkipIndex(disk, skip) # prefixes_to_ignore

\* the files the conversion tools of a job were asked to write
OutputPaths(l) == {calls[l][i].output : i \in 1..Len(calls[l])}

\* C17 (no output contention), as claimed: two distinct URLs dispatched in
\* one batch have distinct staged download paths and distinct conversion
\* output paths, and no job finds the archive it downloaded taken away
\* by another one.
C17_NoOutputContention ==
    \A a \in links, b \in links :
        (a # b /\ Dispatched(a) /\ Dispatched(b))
        => /\ Path("target", BaseName(a)) # Path("target", BaseName(b))
           /\ OutputPaths(a) \cap OutputPaths(b) = {}
           /\ ~(jobs[a].status = "ok" /\ jobs[a].pc = "raised" /\ ~jobs[a].fault)

\* path p is in the same condition in d and e: absent in both, or present
\* with the same content
SameFile(d, e, p) ==
    /\ Exists(d, p) <=> Exists(e, p)
    /\ Exists(d, p) => d[p] = e[p]

\* C18 (a non-success status is a hard per-job failure): the step in which
\* the authenticated request of a job is answered with a status other than
\* 200 leaves the job's target path as it was (not created, not modified) and
\* ends the job failed; from then on the job stays as it is, has unpacked and
\* converted nothing, and has sent its two requests and no more.
C18_StatusErrorIsHardFailure ==
    [][\A l \in links :
         /\ (jobs[l].status # "denied" /\ jobs'[l].status = "denied")
            => /\ SameFile(disk, disk', Path("target", BaseName(l)))
               /\ jobs'[l].pc = "failed"
         /\ jobs[l].status = "denied"
            => /\ jobs[l].pc = "failed"
               /\ jobs[l].unzipped = <<>>
               /\ calls[l] = <<>>
               /\ Len(requests[l]) = 2
               /\ jobs'[l] = jobs[l]
               /\ requests'[l] = requests[l]
               /\ calls'[l] = calls[l]]_vars

\* C18 witness: a job was refused by the server, nothing is at its target
\* path, and download() has gone on to its end
C18_Witness ==
    /\ mainpc = "exited"
    /\ \E l \in links :
         /\ jobs[l].status = "denied"
         /\ jobs[l].pc = "failed"
         /\ ~Exists(disk, Path("target", BaseName(l)))

====
